---- MODULE Spec2Model ----
(***************************************************************************)
(* Model of the gke-managed-certs reconciliation control loop:             *)
(*   - McertController: processNext / handleMcert and its helpers          *)
(*     (src/pkg/controller/mcert_worker.go)                                *)
(*   - Ingress side: processNextIngress / handleIngress / parseAnnotation  *)
(*     (src/unnamed/part_000)                                              *)
(* Strings that the code parses (queue keys, annotation values) are        *)
(* sequences of one-character strings, so that splitting is computed.      *)
(* Opaque strings (provider certificate names, status codes) are TLA+      *)
(* strings.                                                                *)
(* An action is a run of statements of one goroutine that ends with its    *)
(* one access to state that other goroutines change in a way it can see    *)
(* (the Identity Store, a Create, the queue calls after the reconciler,    *)
(* the deferred Done). The reads before it commute with the steps of the   *)
(* other goroutines: a provider Get may fail at any time and certificates  *)
(* are never deleted, so an answer it gives now it can also give later.    *)
(***************************************************************************)
EXTENDS Integers, Sequences, FiniteSets, TLC

(***************************************************************************)
(* Bounds of the model.                                                    *)
(***************************************************************************)
\* number of worker goroutines (each runs one of the two worker loops)
NumWorkers == 2
\* number of items the environment adds to the queues in one behaviour
MaxEnqueues == 2
\* the rate limiter's failure count is tracked up to this value
MaxFailures == 2

Workers == 1..NumWorkers

(***************************************************************************)
(* Strings.                                                                *)
(***************************************************************************)
\* strings.Split(s, sep) for a one-character separator
RECURSIVE SplitAcc(_, _, _)
SplitAcc(s, sep, cur) ==
    IF s = <<>> THEN <<cur>>
    ELSE IF Head(s) = sep THEN <<cur>> \o SplitAcc(Tail(s), sep, <<>>)
    ELSE SplitAcc(Tail(s), sep, Append(cur, Head(s)))

Split(s, sep) == SplitAcc(s, sep, <<>>)

\* cache.SplitMetaNamespaceKey: [ns, name, ok]
SplitMetaNamespaceKey(key) ==
    LET parts == Split(key, "/") IN
    IF Len(parts) = 1 THEN [ns |-> <<>>, name |-> parts[1], ok |-> TRUE]
    ELSE IF Len(parts) = 2 THEN [ns |-> parts[1], name |-> parts[2], ok |-> TRUE]
    ELSE [ns |-> <<>>, name |-> <<>>, ok |-> FALSE]

\* cache.MetaNamespaceKeyFunc of an object with the given namespace and name
MetaNamespaceKey(ns, name) ==
    IF ns = <<>> THEN name ELSE ns \o <<"/">> \o name

\* const splitBy
splitBy == ","

\* mutant of parseAnnotation: the empty string is split like any other value
parseAnnotation_NoEmptyCase(annotationValue) == Split(annotationValue, splitBy)

parseAnnotation(annotationValue) ==
    IF annotationValue = <<>> THEN <<>> ELSE Split(annotationValue, splitBy)

(***************************************************************************)
(* The universe of the bounded model.                                      *)
(***************************************************************************)
\* queue items are interface{} values: a string or something else
StrItem(s) == [str |-> TRUE, s |-> s]
NonString == [str |-> FALSE, s |-> <<>>]
NoItem == [str |-> FALSE, s |-> <<"-">>]

\* ManagedCertificates that exist: the same name in two namespaces
KeyAF == <<"a", "/", "f">>
KeyBF == <<"b", "/", "f">>
McertKeys == {KeyAF, KeyBF}
McertNames == {<<"f">>}
\* a key string that does not decode
BadKey == <<"a", "/", "b", "/", "f">>
\* what producers may put into the mcert queue
McertItems == {StrItem(KeyAF), StrItem(KeyBF), StrItem(BadKey), NonString}

\* Ingress objects
KeyAI == <<"a", "/", "i">>
BadIngressKey == <<"a", "/", "i", "/", "i">>
IngressItems == {StrItem(KeyAI), StrItem(BadIngressKey), NonString}
\* values of the managed-certificates annotation ("", "f", "f,h", "h,f")
AnnotationValues == {<<>>, <<"f">>, <<"f", ",", "h">>, <<"h", ",", "f">>}

Items == McertItems \cup IngressItems

\* names utils.RandomName can return
SslNames == {"g1", "g2"}

\* names of provider certificates that may exist before the controller starts
PreExisting == {"g1"}

\* spec.Domains of a ManagedCertificate
Domains(key) ==
    IF key = KeyAF THEN {"a.example.com"} ELSE {"b.example.com", "www.b.example.com"}

(***************************************************************************)
(* Status vocabulary (const block of mcert_worker.go).                     *)
(***************************************************************************)
sslActive == "ACTIVE"
sslFailedNotVisible == "FAILED_NOT_VISIBLE"
sslFailedCaaChecking == "FAILED_CAA_CHECKING"
sslFailedCaaForbidden == "FAILED_CAA_FORBIDDEN"
sslFailedRateLimited == "FAILED_RATE_LIMITED"
sslManagedCertificateStatusUnspecified == "MANAGED_CERTIFICATE_STATUS_UNSPECIFIED"
sslProvisioning == "PROVISIONING"
sslProvisioningFailed == "PROVISIONING_FAILED"
sslProvisioningFailedPermanently == "PROVISIONING_FAILED_PERMANENTLY"
sslRenewalFailed == "RENEWAL_FAILED"

\* a status code outside both enumerations
BadStatus == "bad_status"

\* mutant of translateDomainStatus: FAILED_CAA_FORBIDDEN gets the value of the case
\* above it
translateDomainStatus_CaaMixedUp(status) ==
    CASE status = sslProvisioning -> [ok |-> TRUE, val |-> "Provisioning"]
      [] status = sslFailedNotVisible -> [ok |-> TRUE, val |-> "FailedNotVisible"]
      [] status = sslFailedCaaChecking -> [ok |-> TRUE, val |-> "FailedCaaChecking"]
      [] status = sslFailedCaaForbidden -> [ok |-> TRUE, val |-> "FailedCaaChecking"]
      [] status = sslFailedRateLimited -> [ok |-> TRUE, val |-> "FailedRateLimited"]
      [] status = sslActive -> [ok |-> TRUE, val |-> "Active"]
      [] OTHER -> [ok |-> FALSE, val |-> ""]

\* translateDomainStatus: [ok, val]
translateDomainStatus(status) ==
    CASE status = sslProvisioning -> [ok |-> TRUE, val |-> "Provisioning"]
      [] status = sslFailedNotVisible -> [ok |-> TRUE, val |-> "FailedNotVisible"]
      [] status = sslFailedCaaChecking -> [ok |-> TRUE, val |-> "FailedCaaChecking"]
      [] status = sslFailedCaaForbidden -> [ok |-> TRUE, val |-> "FailedCaaForbidden"]
      [] status = sslFailedRateLimited -> [ok |-> TRUE, val |-> "FailedRateLimited"]
      [] status = sslActive -> [ok |-> TRUE, val |-> "Active"]
      [] OTHER -> [ok |-> FALSE, val |-> ""]

\* the switch on sslCert.Managed.Status in updateStatus: [ok, val]
translateCertStatus(status) ==
    CASE status = sslActive -> [ok |-> TRUE, val |-> "Active"]
      [] status \in {sslManagedCertificateStatusUnspecified, ""} -> [ok |-> TRUE, val |-> ""]
      [] status = sslProvisioning -> [ok |-> TRUE, val |-> "Provisioning"]
      [] status = sslProvisioningFailed -> [ok |-> TRUE, val |-> "ProvisioningFailed"]
      [] status = sslProvisioningFailedPermanently ->
            [ok |-> TRUE, val |-> "ProvisioningFailedPermanently"]
      [] status = sslRenewalFailed -> [ok |-> TRUE, val |-> "RenewalFailed"]
      [] OTHER -> [ok |-> FALSE, val |-> ""]

(***************************************************************************)
(* The work queue (workqueue.RateLimitingInterface), one record per queue: *)
(*   queue        items waiting to be handed out, in order                 *)
(*   dirty        items that need processing                               *)
(*   processing   items handed out by Get and not yet Done                 *)
(*   waiting      items of AddRateLimited whose delay has not elapsed      *)
(*   failures     the rate limiter's per-item failure count                *)
(***************************************************************************)
EmptyQueue ==
    [queue |-> <<>>, dirty |-> {}, processing |-> {}, waiting |-> {},
     failures |-> [i \in Items |-> 0], shuttingDown |-> FALSE]

QAdd(Q, item) ==
    IF Q.shuttingDown \/ item \in Q.dirty THEN Q
    ELSE IF item \in Q.processing THEN [Q EXCEPT !.dirty = @ \cup {item}]
    ELSE [Q EXCEPT !.dirty = @ \cup {item}, !.queue = Append(@, item)]

\* Get, when it does not block and the queue is not empty
QGet(Q) ==
    [Q EXCEPT !.queue = Tail(@),
              !.processing = @ \cup {Head(Q.queue)},
              !.dirty = @ \ {Head(Q.queue)}]

QDone(Q, item) ==
    IF item \in Q.dirty
    THEN [Q EXCEPT !.processing = @ \ {item}, !.queue = Append(@, item)]
    ELSE [Q EXCEPT !.processing = @ \ {item}]

QForget(Q, item) == [Q EXCEPT !.failures[item] = 0]

QAddRateLimited(Q, item) ==
    LET counted == [Q EXCEPT !.failures[item] =
                        IF @ < MaxFailures THEN @ + 1 ELSE @] IN
    IF Q.shuttingDown THEN counted
    ELSE [counted EXCEPT !.waiting = @ \cup {item}]

(***************************************************************************)
(* State.                                                                  *)
(***************************************************************************)
VARIABLES
    cfg,      \* the configuration of the behaviour, fixed by Init:
              \*   cfg.role[w]        the loop worker w runs, "mcert" or "ingress"
              \*   cfg.ssl, cfg.dom   the status codes the provider may report
              \*   cfg.mcertItems, cfg.ingressItems   what producers may enqueue
              \*   cfg.stop           the queues that are shut down at some point
              \*   cfg.watch          runWatcher runs
    q,        \* q.mcert, q.ingress: the two work queues
    state,    \* Identity Store: ManagedCertificate name -> [exists, value]
    ssl,      \* provider: certificate name -> [exists, domains, owner]
    mc,       \* the ManagedCertificate objects' status (the lister's objects)
    wk,       \* wk[w]: position and locals of worker w
    enq,      \* number of items the environment has added so far
    okAt,     \* history: okAt[key], the mapping when a run for key last returned nil
              \* (kept where cfg.seq says that handleMcert runs one at a time)
    wt        \* position and locals of the runWatcher goroutine

vars == <<cfg, q, state, ssl, mc, wk, enq, okAt, wt>>

\* the ExpireTime the provider reports for a certificate
fakeTimeFieldValue == "time"
NoCert == [name |-> "", status |-> "", doms |-> <<>>, expireTime |-> ""]
NilList == [isNil |-> TRUE, items |-> <<>>]
EmptyStatus ==
    [certificateName |-> "", certificateStatus |-> "", domainStatus |-> NilList,
     expireTime |-> ""]

\* locals of a worker between two attempts
Fresh ==
    [pc |-> "idle", obj |-> NoItem, key |-> <<>>, ns |-> <<>>, name |-> <<>>,
     mkey |-> <<>>, sslName |-> "", uName |-> "", cert |-> NoCert, err |-> "",
     names |-> <<>>,
     \* history of the attempt
     arl |-> FALSE, forgot |-> FALSE, handled |-> FALSE, looked |-> FALSE,
     noEntry |-> FALSE, nPut |-> 0, putName |-> "", createName |-> "",
     probeErr |-> FALSE, updated |-> FALSE, snap |-> EmptyStatus, prior |-> "",
     enqueued |-> {},
     \* gets: c.sslClient.Get was called; refresh: updateStatus was entered
     gets |-> FALSE, refresh |-> FALSE,
     \* present, ann: the annotation handleIngress read; lookups: the names it passed
     \* to the ManagedCertificate lister, in order, with the lister's answers
     \* ingFound: c.Ingress.client.Get returned the Ingress
     present |-> FALSE, ann |-> <<>>, lookups |-> <<>>, ingFound |-> FALSE]

\* obj.(string)
TypeAssert(obj) ==
    IF obj.str THEN [key |-> obj.s, ok |-> TRUE] ELSE [key |-> <<>>, ok |-> FALSE]

\* the provider holds a certificate of this name
SslExists(n) == n \in SslNames /\ ssl[n].exists

\* DomainStatus maps the provider may report for a certificate with domains D
DomMaps(D) == UNION {[S -> cfg.dom] : S \in SUBSET D}

\* the orders in which a Go map with the given keys can be ranged over
Orders(S) ==
    {o \in [1..Cardinality(S) -> S] : \A i, j \in 1..Cardinality(S) : o[i] = o[j] => i = j}

(***************************************************************************)
(* McertController.processNext and handleMcert.                            *)
(***************************************************************************)
\* obj, shutdown := c.queue.Get(); if shutdown { return false }
processNext_Get(w) ==
    /\ cfg.role[w] = "mcert"
    /\ wk[w].pc = "idle"
    /\ IF q.mcert.queue # <<>>
       THEN /\ q' = [q EXCEPT !.mcert = QGet(@)]
            /\ wk' = [wk EXCEPT ![w] = [Fresh EXCEPT !.pc = "begin",
                                                     !.obj = Head(q.mcert.queue)]]
       ELSE /\ q.mcert.shuttingDown
            /\ q' = q
            /\ wk' = [wk EXCEPT ![w].pc = "exited"]
    /\ UNCHANGED <<cfg, wt, state, ssl, mc, enq, okAt>>

\* mutant of processNextCalls: a failed key is not re-enqueued
processNextCalls_NoRetry(err) == [arl |-> FALSE, forget |-> TRUE]

\* the queue calls processNext makes once handleMcert has returned err:
\* [arl, forget] (is AddRateLimited called, is Forget called)
processNextCalls(err) == [arl |-> err # "", forget |-> TRUE]

\* the end of a step of worker w that leaves it with locals l and the mcert queue Q:
\* when handleMcert has returned (l.pc = "ret"), processNext makes its queue calls
\* and only the deferred Done is left
processNext_Ret(w, l, Q) ==
    IF l.pc # "ret"
    THEN /\ wk' = [wk EXCEPT ![w] = l]
         /\ q' = [q EXCEPT !.mcert = Q]
         /\ okAt' = okAt
    ELSE LET c == processNextCalls(l.err)
             q1 == IF c.arl THEN QAddRateLimited(Q, l.obj) ELSE Q
             q2 == IF c.forget THEN QForget(q1, l.obj) ELSE q1
         IN /\ q' = [q EXCEPT !.mcert = q2]
            /\ wk' = [wk EXCEPT ![w] = [l EXCEPT !.arl = c.arl,
                                                 !.forgot = @ \/ c.forget,
                                                 !.pc = "done"]]
            /\ okAt' = IF cfg.seq /\ l.err = ""
                       THEN [okAt EXCEPT ![l.mkey] = state[l.name].value]
                       ELSE okAt

\* mutant of NameKnown: a stored name is never reused
NameKnown_Never(e) == FALSE

\* exists && sslCertificateName != ""
NameKnown(e) == e.exists /\ e.value # ""

\* the locals of handleMcert(key) once the key is decoded, the ManagedCertificate is
\* fetched (found: the lister returned it) and c.state.Get(name) has answered e
HandleMcertLookup(l, key, found, e) ==
    LET sp == SplitMetaNamespaceKey(key)
        mkey == MetaNamespaceKey(sp.ns, sp.name)
        base == [l EXCEPT !.key = key, !.handled = TRUE, !.ns = sp.ns, !.name = sp.name]
    IN IF ~sp.ok THEN [base EXCEPT !.err = "split", !.pc = "ret"]
       ELSE IF ~found THEN [base EXCEPT !.looked = TRUE, !.err = "notfound", !.pc = "ret"]
       ELSE IF NameKnown(e)
       THEN [base EXCEPT !.looked = TRUE, !.mkey = mkey, !.prior = okAt[mkey],
                         !.sslName = e.value, !.pc = "probe"]
       ELSE [base EXCEPT !.looked = TRUE, !.mkey = mkey, !.prior = okAt[mkey],
                         !.noEntry = TRUE, !.pc = "newName"]

\* the Identity Store entry c.state.Get(name) answers
StateGet(name) ==
    IF name \in McertNames THEN state[name] ELSE [exists |-> FALSE, value |-> ""]

\* the step of processNext_Begin, with the queue q1 it leaves
BeginStep(w, q1, found) ==
    LET ta == TypeAssert(wk[w].obj)
        sp == SplitMetaNamespaceKey(ta.key)
    IN /\ found => (sp.ok /\ MetaNamespaceKey(sp.ns, sp.name) \in McertKeys)
       /\ processNext_Ret(w, HandleMcertLookup([wk[w] EXCEPT !.forgot = ~ta.ok], ta.key,
                                                found, StateGet(sp.name)), q1)
       /\ UNCHANGED <<cfg, wt, state, ssl, mc, enq>>

\* mutant of processNext_Begin: Done is called at once instead of being deferred
processNext_Begin_EarlyDone(w) ==
    /\ cfg.role[w] = "mcert"
    /\ wk[w].pc = "begin"
    /\ \E found \in BOOLEAN :
         BeginStep(w, QDone(IF wk[w].obj.str THEN q.mcert
                            ELSE QForget(q.mcert, wk[w].obj), wk[w].obj), found)

\* processNext: the type assertion (Forget for a non-string item); handleMcert: the
\* key's decoding, the lister's Get, and createSslCertificateNameIfNeeded's
\* c.state.Get(name) with the reuse of a stored name
processNext_Begin(w) ==
    /\ cfg.role[w] = "mcert"
    /\ wk[w].pc = "begin"
    /\ \E found \in BOOLEAN :
         BeginStep(w, IF wk[w].obj.str THEN q.mcert
                      ELSE QForget(q.mcert, wk[w].obj), found)

\* the name randomName answers: utils.RandomName gave r1; taken says c.sslClient.Get(r1)
\* returned no error; r2 is what the second utils.RandomName gave
RandomNameResult(r1, taken, r2) == IF taken THEN r2 ELSE r1

\* the step of createName_New, which stores the name when put says so
NewNameStep(w, put) ==
    /\ cfg.role[w] = "mcert"
    /\ wk[w].pc = "newName"
    /\ \E r1 \in SslNames \cup {""}, taken \in BOOLEAN, r2 \in SslNames \cup {""} :
         /\ taken => SslExists(r1)
         /\ ~taken => r2 = ""
         /\ LET n == IF r1 = "" THEN "" ELSE RandomNameResult(r1, taken, r2) IN
            IF n = ""
            THEN /\ processNext_Ret(w, [wk[w] EXCEPT !.err = "randname", !.pc = "ret",
                                                      !.gets = (r1 # "")],
                                    q.mcert)
                 /\ state' = state
            ELSE /\ processNext_Ret(w, [wk[w] EXCEPT !.sslName = n, !.gets = TRUE,
                                                      !.nPut = IF put THEN @ + 1 ELSE @,
                                                      !.putName = IF put THEN n ELSE @,
                                                      !.pc = "probe"], q.mcert)
                 /\ state' = IF put
                             THEN [state EXCEPT ![wk[w].name] =
                                      [exists |-> TRUE, value |-> n]]
                             ELSE state
    /\ UNCHANGED <<cfg, wt, ssl, mc, enq>>

\* mutant of createName_New: the generated name is returned without being stored
createName_New_NoPut(w) == NewNameStep(w, FALSE)

\* createSslCertificateNameIfNeeded without a stored name: c.randomName() ("" stands
\* for an error of utils.RandomName) and c.state.Put(name, sslCertificateName)
createName_New(w) == NewNameStep(w, TRUE)

\* mutant of createSsl: the error of c.sslClient.Create is not returned at once
createSsl_IgnoreCreateError(w) ==
    /\ cfg.role[w] = "mcert"
    /\ wk[w].pc = "probe"
    /\ \E got \in BOOLEAN, ok \in BOOLEAN :
         /\ got => SslExists(wk[w].sslName) /\ ok
         /\ (~got /\ ok) => ~SslExists(wk[w].sslName)
         /\ ssl' = IF ~got /\ ok
                   THEN [ssl EXCEPT ![wk[w].sslName] =
                            [exists |-> TRUE, domains |-> Domains(wk[w].mkey),
                             owner |-> wk[w].mkey]]
                   ELSE ssl
         /\ processNext_Ret(w,
                IF got THEN [wk[w] EXCEPT !.gets = TRUE, !.pc = "uStateGet"]
                ELSE [wk[w] EXCEPT !.gets = TRUE,
                                   !.probeErr = TRUE, !.createName = wk[w].sslName,
                                   !.err = IF ok THEN "" ELSE "create",
                                   !.pc = "uStateGet"],
                q.mcert)
    /\ UNCHANGED <<cfg, wt, state, mc, enq>>

\* createSslCertificateIfNeeded: c.sslClient.Get(sslCertificateName) (got: it returned
\* no error) and, when it failed, c.sslClient.Create (ok: it returned no error)
createSsl(w) ==
    /\ cfg.role[w] = "mcert"
    /\ wk[w].pc = "probe"
    /\ \E got \in BOOLEAN, ok \in BOOLEAN :
         /\ got => SslExists(wk[w].sslName) /\ ok
         /\ (~got /\ ok) => ~SslExists(wk[w].sslName)
         /\ ssl' = IF ~got /\ ok
                   THEN [ssl EXCEPT ![wk[w].sslName] =
                            [exists |-> TRUE, domains |-> Domains(wk[w].mkey),
                             owner |-> wk[w].mkey]]
                   ELSE ssl
         /\ processNext_Ret(w,
                IF got THEN [wk[w] EXCEPT !.gets = TRUE, !.pc = "uStateGet"]
                ELSE [wk[w] EXCEPT !.gets = TRUE,
                                   !.probeErr = TRUE, !.createName = wk[w].sslName,
                                   !.err = IF ok THEN "" ELSE "create",
                                   !.pc = IF ok THEN "uStateGet" ELSE "ret"],
                q.mcert)
    /\ UNCHANGED <<cfg, wt, state, mc, enq>>

\* updateStatus: c.state.Get(mcert.Name)
updateStatus_StateGet(w) ==
    /\ cfg.role[w] = "mcert"
    /\ wk[w].pc = "uStateGet"
    /\ LET e == state[wk[w].name] IN
       processNext_Ret(w,
           IF e.exists
           THEN [wk[w] EXCEPT !.refresh = TRUE, !.uName = e.value, !.pc = "uSslGet"]
           ELSE [wk[w] EXCEPT !.refresh = TRUE, !.err = "state", !.pc = "ret"],
           q.mcert)
    /\ UNCHANGED <<cfg, wt, state, ssl, mc, enq>>

\* the list updateStatus builds from the DomainStatus map dm, ranged over in order o;
\* a nil slice when the map has no entry
DomainStatusList(dm, o) ==
    [isNil |-> (DOMAIN dm = {}),
     items |-> [i \in 1..Len(o) |->
                  [Domain |-> o[i], Status |-> translateDomainStatus(dm[o[i]]).val]]]

\* the ManagedCertificate status and the error updateStatus leaves behind, given the
\* certificate read from the provider: [status, err, update]
\* (update: the Update call is issued)
StatusAfter(old, cert, o) ==
    LET tr == translateCertStatus(cert.status)
        withCert == [old EXCEPT !.certificateStatus = tr.val]
    IN IF ~tr.ok
       THEN [status |-> old, err |-> "translate", update |-> FALSE]
       ELSE IF \E d \in DOMAIN cert.doms : ~translateDomainStatus(cert.doms[d]).ok
       THEN [status |-> withCert, err |-> "translate", update |-> FALSE]
       ELSE [status |-> [withCert EXCEPT !.domainStatus = DomainStatusList(cert.doms, o),
                                         !.certificateName = cert.name],
             err |-> "", update |-> TRUE]

\* updateStatus: c.sslClient.Get(sslCertificateName) (got: it returned no error, with
\* a status st and a DomainStatus map dm), then the translation, the assignments to
\* mcert.Status and the Update call (upOk: it returned no error)
updateStatus_Write(w) ==
    /\ cfg.role[w] = "mcert"
    /\ wk[w].pc = "uSslGet"
    /\ \E got \in BOOLEAN :
         /\ got => SslExists(wk[w].uName)
         /\ IF got
            THEN \E st \in cfg.ssl, dm \in DomMaps(ssl[wk[w].uName].domains),
                    upOk \in BOOLEAN :
                   \E o \in Orders(DOMAIN dm) :
                     LET cert == [name |-> wk[w].uName, status |-> st, doms |-> dm,
                                  expireTime |-> fakeTimeFieldValue]
                         r == StatusAfter(mc[wk[w].mkey], cert, o)
                     IN /\ ~r.update => upOk
                        /\ mc' = [mc EXCEPT ![wk[w].mkey] = r.status]
                        /\ processNext_Ret(w,
                               [wk[w] EXCEPT !.cert = cert, !.snap = mc[wk[w].mkey],
                                             !.gets = TRUE, !.updated = r.update,
                                             !.err = IF r.update /\ ~upOk THEN "update"
                                                     ELSE r.err,
                                             !.pc = "ret"],
                               q.mcert)
            ELSE /\ mc' = mc
                 /\ processNext_Ret(w, [wk[w] EXCEPT !.gets = TRUE, !.err = "sslget",
                                                      !.pc = "ret"],
                                    q.mcert)
    /\ UNCHANGED <<cfg, wt, state, ssl, enq>>

\* mutant of processNext_Done: Done is not called when handleMcert returned an error
processNext_Done_OnSuccessOnly(w) ==
    /\ cfg.role[w] = "mcert"
    /\ wk[w].pc = "done"
    /\ q' = IF wk[w].err = "" THEN [q EXCEPT !.mcert = QDone(@, wk[w].obj)] ELSE q
    /\ wk' = [wk EXCEPT ![w] = Fresh]
    /\ UNCHANGED <<cfg, wt, state, ssl, mc, enq, okAt>>

\* defer c.queue.Done(obj)
processNext_Done(w) ==
    /\ cfg.role[w] = "mcert"
    /\ wk[w].pc = "done"
    /\ q' = [q EXCEPT !.mcert = QDone(@, wk[w].obj)]
    /\ wk' = [wk EXCEPT ![w] = Fresh]
    /\ UNCHANGED <<cfg, wt, state, ssl, mc, enq, okAt>>

(***************************************************************************)
(* The Ingress side: processNextIngress and handleIngress.                 *)
(***************************************************************************)
\* obj, shutdown := c.Ingress.queue.Get(); if shutdown { return false }
processNextIngress_Get(w) ==
    /\ cfg.role[w] = "ingress"
    /\ wk[w].pc = "idle"
    /\ IF q.ingress.queue # <<>>
       THEN /\ q' = [q EXCEPT !.ingress = QGet(@)]
            /\ wk' = [wk EXCEPT ![w] = [Fresh EXCEPT !.pc = "begin",
                                                     !.obj = Head(q.ingress.queue)]]
       ELSE /\ q.ingress.shuttingDown
            /\ q' = q
            /\ wk' = [wk EXCEPT ![w].pc = "exited"]
    /\ UNCHANGED <<cfg, wt, state, ssl, mc, enq, okAt>>

\* the queue calls processNextIngress makes once handleIngress has returned err
processNextIngressCalls(err) == [arl |-> err # "", forget |-> err = ""]

\* the end of a step of worker w that leaves it with locals l and the mcert queue Q:
\* when handleIngress has returned (l.pc = "ret"), processNextIngress makes its queue
\* calls and only the deferred Done is left
processNextIngress_Ret(w, l, Q) ==
    IF l.pc # "ret"
    THEN /\ wk' = [wk EXCEPT ![w] = l]
         /\ q' = [q EXCEPT !.mcert = Q]
    ELSE LET c == processNextIngressCalls(l.err)
             q1 == IF c.arl THEN QAddRateLimited(q.ingress, l.obj) ELSE q.ingress
             q2 == IF c.forget THEN QForget(q1, l.obj) ELSE q1
         IN /\ q' = [q EXCEPT !.mcert = Q, !.ingress = q2]
            /\ wk' = [wk EXCEPT ![w] = [l EXCEPT !.arl = c.arl,
                                                 !.forgot = @ \/ c.forget,
                                                 !.pc = "done"]]

\* processNextIngress: the type assertion (Forget and return for a non-string item);
\* handleIngress: the key's decoding, c.Ingress.client.Get(ns, name) (found: it returned
\* the Ingress) and the reading of the annotation (present, with value val)
processNextIngress_Begin(w) ==
    /\ cfg.role[w] = "ingress"
    /\ wk[w].pc = "begin"
    /\ LET ta == TypeAssert(wk[w].obj)
           sp == SplitMetaNamespaceKey(ta.key)
       IN IF ~ta.ok
          THEN /\ q' = [q EXCEPT !.ingress = QForget(@, wk[w].obj)]
               /\ wk' = [wk EXCEPT ![w] = [@ EXCEPT !.forgot = TRUE, !.err = "type",
                                                    !.pc = "done"]]
          ELSE \E found \in BOOLEAN, present \in BOOLEAN, val \in AnnotationValues :
                 /\ found => (sp.ok /\ MetaNamespaceKey(sp.ns, sp.name) = KeyAI)
                 /\ present => found
                 /\ ~present => val = <<>>
                 /\ processNextIngress_Ret(w,
                        [wk[w] EXCEPT !.key = ta.key, !.handled = TRUE,
                                      !.ns = sp.ns, !.name = sp.name,
                                      !.looked = sp.ok,
                                      !.err = IF ~sp.ok THEN "split"
                                              ELSE IF ~found THEN "notfound" ELSE "",
                                      !.ingFound = found,
                                      !.present = present, !.ann = val,
                                      !.names = IF present THEN parseAnnotation(val)
                                                ELSE <<>>,
                                      !.pc = IF present /\ parseAnnotation(val) # <<>>
                                             THEN "iLoop" ELSE "ret"],
                        q.mcert)
    /\ UNCHANGED <<cfg, wt, state, ssl, mc, enq, okAt>>

\* mutant of handleIngress_Loop: a name that does not resolve ends the reconciliation
\* with the lister's error
handleIngress_Loop_AbortOnError(w) ==
    /\ cfg.role[w] = "ingress"
    /\ wk[w].pc = "iLoop"
    /\ \E found \in BOOLEAN :
         LET k == MetaNamespaceKey(wk[w].ns, Head(wk[w].names)) IN
         /\ found => k \in McertKeys
         /\ processNextIngress_Ret(w,
                [wk[w] EXCEPT !.names = Tail(@),
                              !.lookups = Append(@, [name |-> Head(wk[w].names),
                                                     found |-> found]),
                              !.enqueued = IF found THEN @ \cup {k} ELSE @,
                              !.err = IF found THEN "" ELSE "notfound",
                              !.pc = IF Tail(wk[w].names) = <<>> \/ ~found
                                     THEN "ret" ELSE "iLoop"],
                IF found THEN QAdd(q.mcert, StrItem(k)) ELSE q.mcert)
    /\ UNCHANGED <<cfg, wt, state, ssl, mc, enq, okAt>>

\* handleIngress: one round of the loop over the annotation's names (found: the
\* lister returned the ManagedCertificate); the function returns nil after the last
handleIngress_Loop(w) ==
    /\ cfg.role[w] = "ingress"
    /\ wk[w].pc = "iLoop"
    /\ \E found \in BOOLEAN :
         LET k == MetaNamespaceKey(wk[w].ns, Head(wk[w].names)) IN
         /\ found => k \in McertKeys
         /\ processNextIngress_Ret(w,
                [wk[w] EXCEPT !.names = Tail(@),
                              !.lookups = Append(@, [name |-> Head(wk[w].names),
                                                     found |-> found]),
                              !.enqueued = IF found THEN @ \cup {k} ELSE @,
                              !.pc = IF Tail(wk[w].names) = <<>> THEN "ret" ELSE "iLoop"],
                IF found THEN QAdd(q.mcert, StrItem(k)) ELSE q.mcert)
    /\ UNCHANGED <<cfg, wt, state, ssl, mc, enq, okAt>>

\* defer c.Ingress.queue.Done(obj)
processNextIngress_Done(w) ==
    /\ cfg.role[w] = "ingress"
    /\ wk[w].pc = "done"
    /\ q' = [q EXCEPT !.ingress = QDone(@, wk[w].obj)]
    /\ wk' = [wk EXCEPT ![w] = Fresh]
    /\ UNCHANGED <<cfg, wt, state, ssl, mc, enq, okAt>>

(***************************************************************************)
(* IngressController.runWatcher.                                           *)
(***************************************************************************)
\* event types of k8s.io/apimachinery/pkg/watch
Added == "ADDED"
Modified == "MODIFIED"
Deleted == "DELETED"
WatchError == "ERROR"
EventTypes == {Added, Modified, Deleted, WatchError}

\* the keys of the Ingress objects that events carry
EventObjects == {KeyAI}

\* the watcher before runWatcher is called; ev, called: the event the select received
\* in this round of the loop ("" when it took the default case), and whether
\* c.enqueue was called for it; sub: Watch returned a subscription; stopped: Stop
\* was called on it
WatcherStart ==
    [pc |-> "start", sub |-> FALSE, stopped |-> FALSE, ev |-> "", called |-> FALSE]

\* mutant of WatchEnqueues: every event is enqueued
WatchEnqueues_All(t) == TRUE

\* event.Type == watch.Added || event.Type == watch.Modified
WatchEnqueues(t) == t = Added \/ t = Modified

\* watcher, err := c.client.Watch(); if err != nil { return }
runWatcher_Watch ==
    /\ wt.pc = "start"
    /\ \E ok \in BOOLEAN :
         wt' = IF ok THEN [wt EXCEPT !.sub = TRUE, !.pc = "select"]
               ELSE [wt EXCEPT !.pc = "exited"]
    /\ UNCHANGED <<cfg, q, state, ssl, mc, wk, enq, okAt>>

\* mutant of runWatcher_Check: the loop returns without watcher.Stop()
runWatcher_Check_NoStop(l, shuttingDown) ==
    IF shuttingDown THEN [l EXCEPT !.pc = "exited"] ELSE l

\* if c.queue.ShuttingDown() { watcher.Stop(); return }; time.Sleep(time.Second):
\* the watcher's locals after the check, from its locals l after the select
runWatcher_Check(l, shuttingDown) ==
    IF shuttingDown THEN [l EXCEPT !.stopped = TRUE, !.pc = "exited"] ELSE l

\* one round of the loop. The select: an event is received from watcher.ResultChan()
\* and enqueued when it is Added or Modified, or the default case is taken; then the
\* check of c.queue.ShuttingDown()
runWatcher_Select ==
    /\ wt.pc = "select"
    /\ \/ /\ enq < MaxEnqueues
          /\ \E t \in EventTypes, o \in EventObjects :
               /\ wt' = runWatcher_Check([wt EXCEPT !.ev = t, !.called = WatchEnqueues(t)],
                                         q.ingress.shuttingDown)
               /\ q' = IF WatchEnqueues(t)
                       THEN [q EXCEPT !.ingress = QAdd(@, StrItem(o))]
                       ELSE q
          /\ enq' = enq + 1
       \/ /\ wt' = runWatcher_Check([wt EXCEPT !.ev = "", !.called = FALSE],
                                    q.ingress.shuttingDown)
          /\ UNCHANGED <<q, enq>>
    /\ UNCHANGED <<cfg, state, ssl, mc, wk, okAt>>

\* one step of the runWatcher goroutine
WatcherStep ==
    \/ runWatcher_Watch
    \/ runWatcher_Select

(***************************************************************************)
(* The environment of the two loops.                                       *)
(***************************************************************************)
\* a producer adds an item to a queue
Enqueue(qid, item) ==
    /\ enq < MaxEnqueues
    /\ QAdd(q[qid], item) # q[qid]
    /\ enq' = enq + 1
    /\ q' = [q EXCEPT ![qid] = QAdd(@, item)]
    /\ UNCHANGED <<cfg, wt, state, ssl, mc, wk, okAt>>

\* the delay of an AddRateLimited elapses
DelayElapsed(qid, item) ==
    /\ item \in q[qid].waiting
    /\ q' = [q EXCEPT ![qid] = QAdd([@ EXCEPT !.waiting = @ \ {item}], item)]
    /\ UNCHANGED <<cfg, wt, state, ssl, mc, wk, enq, okAt>>

\* queue.ShutDown()
ShutDown(qid) ==
    /\ qid \in cfg.stop
    /\ ~q[qid].shuttingDown
    /\ q' = [q EXCEPT ![qid].shuttingDown = TRUE]
    /\ UNCHANGED <<cfg, wt, state, ssl, mc, wk, enq, okAt>>

(***************************************************************************)
(* Specification.                                                          *)
(***************************************************************************)
\* the first k workers run processNext, the others processNextIngress
Roles(k) == [w \in Workers |-> IF w <= k THEN "mcert" ELSE "ingress"]

InitCommon ==
    /\ q = [mcert |-> EmptyQueue, ingress |-> EmptyQueue]
    /\ state = [n \in McertNames |-> [exists |-> FALSE, value |-> ""]]
    /\ \E pre \in SUBSET PreExisting :
         ssl = [n \in SslNames |->
                  IF n \in pre
                  THEN [exists |-> TRUE, domains |-> {"x.example.com"}, owner |-> <<"ext">>]
                  ELSE [exists |-> FALSE, domains |-> {}, owner |-> <<>>]]
    /\ mc = [k \in McertKeys |-> EmptyStatus]
    /\ wk = [w \in Workers |-> Fresh]
    /\ enq = 0
    /\ okAt = [k \in McertKeys |-> ""]

\* a configuration: k workers on the mcert queue, what producers enqueue, the status
\* codes the provider reports, and the queues that are shut down at some point
Config(k, mi, ii, codes, stop) ==
    [role |-> Roles(k), seq |-> (k = 1), ssl |-> codes, dom |-> codes \ {""},
     mcertItems |-> mi, ingressItems |-> ii, stop |-> stop, watch |-> FALSE]

\* the configuration c with runWatcher as a producer of the Ingress queue
Watched(c) == [c EXCEPT !.watch = TRUE]

\* the watcher at Init: not started where the configuration has none
WatcherInit == IF cfg.watch THEN WatcherStart ELSE [WatcherStart EXCEPT !.pc = "off"]

Configs ==
    {\* one ManagedCertificate, undecodable items, recognized and unrecognized codes
     Config(NumWorkers, {StrItem(KeyAF), StrItem(BadKey), NonString}, {},
            {sslActive, BadStatus}, {"mcert"}),
     \* the pipeline: Ingress workers feeding one Mcert worker
     Config(1, {}, {StrItem(KeyAI)}, {sslProvisioning}, {}),
     \* Ingress workers only
     Config(0, {}, IngressItems, {sslProvisioning}, {"ingress"}),
     \* Ingress workers fed by runWatcher
     Watched(Config(0, {}, {}, {sslProvisioning}, {"ingress"}))}

Init ==
    /\ InitCommon
    /\ cfg \in Configs
    /\ wt = WatcherInit

\* one step of worker w: runWorker, runIngressWorker
WorkerStep(w) ==
    \/ processNext_Get(w)
    \/ processNext_Begin(w)
    \/ createName_New(w)
    \/ createSsl(w)
    \/ updateStatus_StateGet(w)
    \/ updateStatus_Write(w)
    \/ processNext_Done(w)
    \/ processNextIngress_Get(w)
    \/ processNextIngress_Begin(w)
    \/ handleIngress_Loop(w)
    \/ processNextIngress_Done(w)

Next ==
    \/ \E w \in Workers : WorkerStep(w)
    \/ WatcherStep
    \/ \E item \in cfg.mcertItems : Enqueue("mcert", item)
    \/ \E item \in cfg.ingressItems : Enqueue("ingress", item)
    \/ \E qid \in {"mcert", "ingress"}, item \in Items : DelayElapsed(qid, item)
    \/ \E qid \in {"mcert", "ingress"} : ShutDown(qid)

Spec == Init /\ [][Next]_vars

\* The worker goroutines are scheduled fairly, and every call they make returns.
\* Checked on configurations with one key per queue.
LiveConfigs ==
    {Config(NumWorkers, {StrItem(KeyAF)}, {}, {""}, {"mcert"}),
     Config(0, {}, {StrItem(KeyAI), NonString}, {""}, {"ingress"}),
     \* runWatcher filling the Ingress queue, and Mcert workers with nothing to do
     Watched(Config(NumWorkers, {}, {}, {""}, {"mcert", "ingress"}))}

LiveInit ==
    /\ InitCommon
    /\ cfg \in LiveConfigs
    /\ wt = WatcherInit

LiveSpec ==
    /\ LiveInit /\ [][Next]_vars
    /\ \A w \in Workers : WF_vars(WorkerStep(w))
    /\ WF_vars(WatcherStep)

\* Two ManagedCertificates of one name in two namespaces, reconciled in parallel
\* (and one Ingress, for the other loop).
RaceConfigs ==
    {Config(NumWorkers, {StrItem(KeyAF), StrItem(KeyBF)}, {}, {""}, {"mcert"}),
     Watched(Config(0, {}, {StrItem(KeyAI)}, {""}, {"ingress"}))}

RaceInit ==
    /\ InitCommon
    /\ cfg \in RaceConfigs
    /\ wt = WatcherInit

RaceSpec == RaceInit /\ [][Next]_vars

\* The status refresh on every status code: one ManagedCertificate with two domains
\* is in the queue, and the provider reports any overall and per-domain code.
CertCodes ==
    {sslActive, sslManagedCertificateStatusUnspecified, "", sslProvisioning,
     sslProvisioningFailed, sslProvisioningFailedPermanently, sslRenewalFailed,
     BadStatus}
DomainCodes ==
    {sslProvisioning, sslFailedNotVisible, sslFailedCaaChecking, sslFailedCaaForbidden,
     sslFailedRateLimited, sslActive, BadStatus}

TranslateInit ==
    /\ cfg = [Config(NumWorkers, {}, {}, CertCodes, {}) EXCEPT !.dom = DomainCodes]
    /\ q = [mcert |-> QAdd(EmptyQueue, StrItem(KeyBF)), ingress |-> EmptyQueue]
    /\ state = [n \in McertNames |-> [exists |-> FALSE, value |-> ""]]
    /\ ssl = [n \in SslNames |-> [exists |-> FALSE, domains |-> {}, owner |-> <<>>]]
    /\ mc = [k \in McertKeys |-> EmptyStatus]
    /\ wk = [w \in Workers |-> Fresh]
    /\ enq = 1
    /\ okAt = [k \in McertKeys |-> ""]
    /\ wt = WatcherInit

TranslateNext ==
    \E w \in Workers :
        \/ processNext_Get(w)
        \/ processNext_Begin(w)
        \/ createName_New(w)
        \/ createSsl(w)
        \/ updateStatus_StateGet(w)
        \/ updateStatus_Write(w)
        \/ processNext_Done(w)

TranslateSpec == TranslateInit /\ [][TranslateNext]_vars

(***************************************************************************)
(* Properties.                                                             *)
(***************************************************************************)
McertWorkers == {w \in Workers : cfg.role[w] = "mcert"}
IngressWorkers == {w \in Workers : cfg.role[w] = "ingress"}
\* worker w holds an item it got from its queue and has not called Done for
Busy(w) == wk[w].pc \notin {"idle", "exited"}
\* the attempt of worker w is over but for the deferred Done
AttemptOver(w) == wk[w].pc = "done"
\* the key of the item decodes into namespace and name
Decodable(item) == item.str /\ SplitMetaNamespaceKey(item.s).ok

\* C1: once the Identity Store holds a non-empty provider certificate name for a
\* ManagedCertificate name, no step changes that value.
C1_MappingNeverOverwritten ==
    [][\A n \in McertNames : NameKnown(state[n]) => state'[n] = state[n]]_vars

C3_ExactlyOnePut ==
    \A w \in McertWorkers :
        (AttemptOver(w) /\ wk[w].noEntry)
            => /\ wk[w].nPut = 1
               /\ wk[w].createName # "" => wk[w].createName = wk[w].putName

\* C3 (amended): a run of handleMcert that found no Identity Store entry for the name
\* makes no Put when name generation fails and exactly one Put otherwise; the Put comes
\* before the provider Get and Create of the run, and Create is called with the name
\* that was Put.
C3_OnePutBeforeCreate ==
    \A w \in McertWorkers :
        wk[w].noEntry
            => /\ wk[w].nPut \in {0, 1}
               /\ wk[w].nPut = 0 <=> (wk[w].pc = "newName" \/ wk[w].err = "randname")
               /\ wk[w].nPut = 1 => /\ wk[w].putName = wk[w].sslName
                                    /\ wk[w].putName \in SslNames
               /\ wk[w].pc = "probe" => wk[w].nPut = 1
               /\ wk[w].createName # ""
                    => wk[w].nPut = 1 /\ wk[w].createName = wk[w].putName

\* C3 witness: a run that found no entry has Put a name and called Create.
C3_Witness ==
    \E w \in McertWorkers :
        wk[w].noEntry /\ wk[w].nPut = 1 /\ wk[w].createName # ""

\* C4: at most one provider resource is ever created for one ManagedCertificate key
\* (every resource was created by a Create call with its name, so two resources of one
\* key are two distinct names passed to Create for that key).
C4_OneResourcePerKey ==
    \A k \in McertKeys :
        Cardinality({n \in SslNames : ssl[n].exists /\ ssl[n].owner = k}) <= 1

\* C5: when updateStatus returns the error of an unrecognized overall or per-domain
\* status, no Update call was issued and the ManagedCertificate status is what it was
\* when updateStatus read the provider certificate.
C5_NoPartialStatus ==
    \A w \in McertWorkers :
        wk[w].err = "translate"
            => ~wk[w].updated /\ mc[wk[w].mkey] = wk[w].snap

\* C6: in both loops, an attempt on a string key whose reconciler returned an error has
\* called AddRateLimited and not Forget, so the key's failure count is not zero; and
\* Forget is called only in a successful attempt or for a non-string item.
C6_ForgetOnlyOnSuccess ==
    \A w \in Workers :
        AttemptOver(w)
            => /\ (wk[w].obj.str /\ wk[w].err # "")
                    => /\ wk[w].arl
                       /\ ~wk[w].forgot
                       /\ q[cfg.role[w]].failures[wk[w].obj] >= 1
               /\ wk[w].forgot => (wk[w].err = "" \/ ~wk[w].obj.str)

\* C7: in both loops, when the reconciler returned an error for a string key, the
\* attempt has called AddRateLimited: unless the queue is shutting down, the key waits
\* for its delay or is marked for reprocessing, whatever its failure count.
C7_FailureRequeued ==
    \A w \in Workers :
        (AttemptOver(w) /\ wk[w].obj.str /\ wk[w].err # "")
            => /\ wk[w].arl
               /\ \/ q[cfg.role[w]].shuttingDown
                  \/ wk[w].obj \in q[cfg.role[w]].waiting
                  \/ wk[w].obj \in q[cfg.role[w]].dirty

\* C7 witness: a failed attempt on a decodable key is re-enqueued in each loop.
C7_Witness ==
    /\ \E w \in McertWorkers :
         /\ AttemptOver(w) /\ Decodable(wk[w].obj) /\ wk[w].err = "notfound"
         /\ wk[w].obj \in q.mcert.waiting
    \/ \E w \in IngressWorkers :
         /\ AttemptOver(w) /\ Decodable(wk[w].obj) /\ wk[w].err = "notfound"
         /\ q.ingress.failures[wk[w].obj] = MaxFailures
         /\ wk[w].obj \in q.ingress.waiting

\* C8: in both loops, an item that does not decode (a non-string item, or a key that
\* does not split into namespace and name) has been forgotten when the attempt is
\* over, no lookup was run for it and AddRateLimited was not called for it.
C8_UndecodableDropped ==
    \A w \in Workers :
        (AttemptOver(w) /\ ~Decodable(wk[w].obj))
            => wk[w].forgot /\ ~wk[w].looked /\ ~wk[w].arl

\* C9: no two workers of one queue hold the same item at the same time.
C9_OneWorkerPerKey ==
    \A w1, w2 \in Workers :
        (w1 # w2 /\ cfg.role[w1] = cfg.role[w2] /\ Busy(w1) /\ Busy(w2))
            => wk[w1].obj # wk[w2].obj

\* C9 witness: a key is Added again (its delay after AddRateLimited elapsed before
\* Done) while one worker holds it and another worker of the queue is idle.
C9_Witness ==
    \E w1, w2 \in Workers :
        /\ w1 # w2 /\ cfg.role[w1] = cfg.role[w2]
        /\ AttemptOver(w1) /\ wk[w1].arl
        /\ wk[w1].obj \in q[cfg.role[w1]].dirty
        /\ wk[w2].pc = "idle"

\* the items the workers of a queue hold
Held(qid) == {wk[w].obj : w \in {x \in Workers : cfg.role[x] = qid /\ Busy(x)}}
Served(qid) == \E w \in Workers : cfg.role[w] = qid

\* C10: under fair scheduling of the workers, every item marked for processing in a
\* queue that has workers (enqueued before shutdown, or Added again while in flight)
\* is eventually handed out by Get (no item stays marked: again and again it is not
\* marked), every attempt ends with its Done (again and again each worker holds
\* nothing), a key that was handed out has been passed to the reconciler once the
\* worker is past the type assertion (a non-string item of the Ingress queue is
\* dropped instead), and the items in flight are exactly those a worker holds (one
\* Done for every Get, on every path).
C10_EnqueuedEventuallyProcessed ==
    /\ \A qid \in {"mcert", "ingress"}, i \in Items :
         []<>(Served(qid) => i \notin q[qid].dirty)
    /\ \A w \in Workers : []<>(~Busy(w))
    /\ [](\A w \in Workers :
            (Busy(w) /\ wk[w].pc # "begin") => (wk[w].handled \/ ~wk[w].obj.str))
    /\ [](\A qid \in {"mcert", "ingress"} : Served(qid) => q[qid].processing = Held(qid))

\* C10 witness: a key was Added again while a worker holds it, after a failed attempt.
C10_Witness ==
    \E w \in Workers :
        /\ Busy(w) /\ wk[w].handled /\ wk[w].err # ""
        /\ wk[w].obj \in q[cfg.role[w]].dirty

\* C11: in handleMcert an error aborts the later steps and is what processNext sees
\* (the attempt is over as soon as an error is set): when the key does not decode or
\* the lister's Get fails there is no Put, no provider Get, no Create and no status
\* refresh; when name generation fails there is no Put, no Create and no status
\* refresh; when Create fails there is no status refresh; and an Update call is
\* issued only in a status refresh that met no error before it.
C11_ErrorAbortsLaterSteps ==
    \A w \in McertWorkers :
        /\ wk[w].err # "" => AttemptOver(w)
        /\ wk[w].err \in {"split", "notfound"}
             => /\ wk[w].nPut = 0 /\ ~wk[w].gets /\ wk[w].createName = ""
                /\ ~wk[w].refresh /\ ~wk[w].updated
        /\ wk[w].err = "randname"
             => /\ wk[w].nPut = 0 /\ wk[w].createName = ""
                /\ ~wk[w].refresh /\ ~wk[w].updated
        /\ wk[w].err = "create"
             => /\ wk[w].createName # "" /\ ~wk[w].refresh /\ ~wk[w].updated
        /\ wk[w].updated => wk[w].refresh /\ wk[w].err \in {"", "update"}

\* C11 witness: an attempt is over whose Create failed after a Put.
C11_Witness ==
    \E w \in McertWorkers :
        AttemptOver(w) /\ wk[w].err = "create" /\ wk[w].nPut = 1 /\ wk[w].gets

\* the keys of the names of a lookup list the lister resolved, in namespace ns
ResolvedKeys(ns, lookups) ==
    {MetaNamespaceKey(ns, lookups[i].name) : i \in {j \in DOMAIN lookups : lookups[j].found}}

\* the names of a lookup list
LookupNames(lookups) == [i \in DOMAIN lookups |-> lookups[i].name]

\* C12: handleIngress, for an Ingress with the annotation, looks its names up in order
\* and never stops at one that does not resolve: the names looked up so far and the
\* names left are the annotation's list, the keys passed to the Mcert controller's
\* enqueue are those of the names that resolved, no lookup sets an error, and when
\* the attempt is over every name was looked up and handleIngress returned nil.
C12_PartialFailureTolerated ==
    \A w \in IngressWorkers :
        wk[w].present
            => /\ LookupNames(wk[w].lookups) \o wk[w].names = parseAnnotation(wk[w].ann)
               /\ wk[w].enqueued = ResolvedKeys(wk[w].ns, wk[w].lookups)
               /\ wk[w].err = ""
               /\ AttemptOver(w) => wk[w].names = <<>>

\* C12 witness: an attempt is over for an annotation of two names whose first name did
\* not resolve and whose second name was enqueued.
C12_Witness ==
    \E w \in IngressWorkers :
        /\ AttemptOver(w) /\ wk[w].present /\ Len(wk[w].lookups) = 2
        /\ ~wk[w].lookups[1].found /\ wk[w].lookups[2].found
        /\ wk[w].enqueued = {KeyAF}

\* C13: when handleIngress has fetched an Ingress whose annotation is absent or is the
\* empty string, the attempt is over at once: no ManagedCertificate was looked up,
\* nothing was passed to the Mcert controller's enqueue, and handleIngress returned nil.
C13_NoAnnotationNoEffect ==
    \A w \in IngressWorkers :
        (wk[w].ingFound /\ (~wk[w].present \/ wk[w].ann = <<>>))
            => /\ AttemptOver(w)
               /\ wk[w].lookups = <<>>
               /\ wk[w].enqueued = {}
               /\ wk[w].err = ""

\* C13 witness: an attempt is over for an Ingress whose annotation is the empty string.
C13_Witness ==
    \E w \in IngressWorkers :
        AttemptOver(w) /\ wk[w].ingFound /\ wk[w].present /\ wk[w].ann = <<>>

\* C14: in every round of the watch loop c.enqueue has been called exactly when the event
\* received is Added or Modified (not for Deleted, not for another type, not in the
\* default case), and a step of runWatcher changes nothing but the Ingress queue: the
\* Identity Store, the provider, the ManagedCertificates, the workers and the Mcert
\* queue stay as they are, and the Ingress queue changes only by the Add of an event's
\* key in a step that called c.enqueue.
C14_WatcherEnqueuesAddedModified ==
    /\ [](wt.called <=> wt.ev \in {Added, Modified})
    /\ [][wt' # wt =>
            /\ state' = state /\ ssl' = ssl /\ mc' = mc /\ wk' = wk /\ okAt' = okAt
            /\ q'.mcert = q.mcert
            /\ IF wt.pc = "select" /\ wt'.called
               THEN \E o \in EventObjects : q'.ingress = QAdd(q.ingress, StrItem(o))
               ELSE q'.ingress = q.ingress]_vars

\* C14 witness: after an Added event put the key into the Ingress queue, a Deleted
\* event was received and not enqueued.
C14_Witness ==
    /\ wt.pc = "select" /\ wt.ev = Deleted /\ ~wt.called
    /\ cfg.ingressItems = {}
    /\ StrItem(KeyAI) \in q.ingress.dirty

\* C15: under fair scheduling, once the Ingress queue is shutting down (it never leaves
\* that state) runWatcher returns; when it has returned after Watch gave a subscription
\* it has called Stop on it; every worker returns from its loop once its queue is
\* shutting down; and a worker leaves its loop only from Get, on a queue that is
\* shutting down and empty, never in the middle of an attempt.
C15_ShutdownTerminates ==
    /\ []<>((cfg.watch /\ q.ingress.shuttingDown) => wt.pc = "exited")
    /\ []((wt.pc = "exited" /\ wt.sub) => wt.stopped)
    /\ \A w \in Workers : []<>(q[cfg.role[w]].shuttingDown => wk[w].pc = "exited")
    /\ [][\A w \in Workers :
            (wk'[w].pc = "exited" /\ wk[w].pc # "exited")
                => /\ wk[w].pc = "idle"
                   /\ q[cfg.role[w]].shuttingDown
                   /\ q[cfg.role[w]].queue = <<>>]_vars

\* C15 witness: after the shutdown of the Ingress queue the watcher has stopped its
\* subscription and returned, and every worker has left its loop.
C15_Witness ==
    /\ cfg.watch /\ q.ingress.shuttingDown
    /\ wt.pc = "exited" /\ wt.sub /\ wt.stopped
    /\ \A w \in Workers : wk[w].pc = "exited"
    /\ enq > 0

\* the values the claim lists for the overall and the per-domain status codes
ExpectedCertStatus ==
    [c \in {"ACTIVE", "", "MANAGED_CERTIFICATE_STATUS_UNSPECIFIED", "PROVISIONING",
            "PROVISIONING_FAILED", "PROVISIONING_FAILED_PERMANENTLY", "RENEWAL_FAILED"} |->
        CASE c = "ACTIVE" -> "Active"
          [] c = "PROVISIONING" -> "Provisioning"
          [] c = "PROVISIONING_FAILED" -> "ProvisioningFailed"
          [] c = "PROVISIONING_FAILED_PERMANENTLY" -> "ProvisioningFailedPermanently"
          [] c = "RENEWAL_FAILED" -> "RenewalFailed"
          [] OTHER -> ""]
ExpectedDomainStatus ==
    [c \in {"PROVISIONING", "FAILED_NOT_VISIBLE", "FAILED_CAA_CHECKING",
            "FAILED_CAA_FORBIDDEN", "FAILED_RATE_LIMITED", "ACTIVE"} |->
        CASE c = "PROVISIONING" -> "Provisioning"
          [] c = "FAILED_NOT_VISIBLE" -> "FailedNotVisible"
          [] c = "FAILED_CAA_CHECKING" -> "FailedCaaChecking"
          [] c = "FAILED_CAA_FORBIDDEN" -> "FailedCaaForbidden"
          [] c = "FAILED_RATE_LIMITED" -> "FailedRateLimited"
          [] OTHER -> "Active"]

\* every code of the certificate cert is a recognized one
Recognized(cert) ==
    /\ cert.status \in DOMAIN ExpectedCertStatus
    /\ \A d \in DOMAIN cert.doms : cert.doms[d] \in DOMAIN ExpectedDomainStatus

\* C16: the status refresh fails with the translation error only for a certificate
\* with an unrecognized code, and when it wrote the status (the Update call was
\* issued) the certificate's codes are recognized, certificateStatus is the value
\* listed for the overall code, and domainStatus has as many entries as the
\* provider's map has domains: for each domain the one entry with the value listed
\* for its code.
C16_RecognizedCodesMapped ==
    \A w \in McertWorkers :
        LET c == wk[w].cert
            st == mc[wk[w].mkey]
            items == st.domainStatus.items
        IN /\ wk[w].err = "translate" => ~Recognized(c)
           /\ wk[w].updated
                => /\ Recognized(c)
                   /\ st.certificateStatus = ExpectedCertStatus[c.status]
                   /\ Len(items) = Cardinality(DOMAIN c.doms)
                   /\ {items[i] : i \in DOMAIN items}
                        = {[Domain |-> d, Status |-> ExpectedDomainStatus[c.doms[d]]] :
                             d \in DOMAIN c.doms}

\* C16 witness: a status was written for a certificate in RENEWAL_FAILED whose two
\* domains are in FAILED_CAA_FORBIDDEN and FAILED_RATE_LIMITED.
C16_Witness ==
    \E w \in McertWorkers :
        /\ wk[w].updated /\ wk[w].cert.status = sslRenewalFailed
        /\ DOMAIN wk[w].cert.doms = {"b.example.com", "www.b.example.com"}
        /\ wk[w].cert.doms["b.example.com"] = sslFailedCaaForbidden
        /\ wk[w].cert.doms["www.b.example.com"] = sslFailedRateLimited

\* C17: when the status was written for a certificate whose domain-status map has
\* no entries, the domainStatus of the ManagedCertificate is an empty list, not a
\* nil one.
C17_EmptyListWhenNoDomains ==
    \A w \in McertWorkers :
        wk[w].updated /\ DOMAIN wk[w].cert.doms = {}
            => ~mc[wk[w].mkey].domainStatus.isNil

\* C18: when the status was written, it carries the expire time and the name of the
\* provider certificate it was translated from.
C18_ExpireTimeAndNameCarried ==
    \A w \in McertWorkers :
        wk[w].updated
            => /\ mc[wk[w].mkey].expireTime = wk[w].cert.expireTime
               /\ mc[wk[w].mkey].certificateName = wk[w].cert.name

\* C19: two ManagedCertificates of one name in two namespaces never have the same
\* provider certificate name in their statuses.
C19_NamespacesNeverShareCertificate ==
    \A k1, k2 \in McertKeys :
        (/\ k1 # k2
         /\ SplitMetaNamespaceKey(k1).name = SplitMetaNamespaceKey(k2).name
         /\ mc[k1].certificateName # ""
         /\ mc[k2].certificateName # "")
            => mc[k1].certificateName # mc[k2].certificateName

\* C20: when handleMcert returned nil after writing the status, the provider resource
\* named by the Identity Store mapping of the ManagedCertificate was created for that
\* ManagedCertificate and holds its domains (which never change here).
C20_MappedResourceIsOwn ==
    \A w \in McertWorkers :
        (wk[w].pc = "done" /\ wk[w].updated /\ wk[w].err = "")
            => LET n == state[wk[w].name].value
               IN /\ n \in SslNames
                  /\ ssl[n].exists
                  /\ ssl[n].owner = wk[w].mkey
                  /\ ssl[n].domains = Domains(wk[w].mkey)

====
